---- MODULE Spec2Model ----
(***************************************************************************)
(* Model of src/src/App.tsx: the task list component.                      *)
(*                                                                         *)
(* The component holds two pieces of React state, tasks and inputValue,    *)
(* and four handlers: the input's onChange (setInputValue), addTask,       *)
(* toggleTask and deleteTask.  Every handler is run by one discrete DOM    *)
(* event (change, keypress, click); React commits the state update and     *)
(* re-renders before the next event is dispatched, so a handler always     *)
(* reads the state left by the previous one.  One action of the model is   *)
(* one event: the handler together with the commit of its updates.         *)
(*                                                                         *)
(* Strings are sequences of one-character strings, so that trim() is       *)
(* computed and not assumed.  Date.now() is the variable now, which the    *)
(* environment advances (Tick) independently of the handlers.              *)
(***************************************************************************)
EXTENDS Integers, Sequences, FiniteSets, TLC

VARIABLES
    tasks,       \* App.tsx:11  the Task[] state
    inputValue,  \* App.tsx:15  the text field's state
    now,         \* the value Date.now() returns (App.tsx:20)
    view,        \* the tasks and inputValue of the last render, which its handlers close over
    last,        \* history: the last handler run, its argument, whether it repeats the one before
    submitted,   \* history: inputValue at each addTask call made with a non-empty inputValue
    removed,     \* history: how many tasks deleteTask has filtered out so far
    step         \* history: position in the walk-through setInput, add, toggle, delete

vars == <<tasks, inputValue, now, view, last, submitted, removed, step>>

----------------------------------------------------------------------------
(* Bounds of the exploration *)

\* How long the list may get before the exploration stops adding to it.
MaxTasks == 3
\* How many milliseconds the clock may advance.
MaxTicks == 1
\* How many addTask calls with a non-empty inputValue a run may make.
MaxAdds == 2

----------------------------------------------------------------------------
(* Strings *)

DeployToAWS == <<"D","e","p","l","o","y"," ","t","o"," ","A","W","S">>
TestTheApp  == <<"T","e","s","t"," ","t","h","e"," ","a","p","p">>
BuyMilk     == <<"B","u","y"," ","m","i","l","k">>
Empty       == << >>
Space       == <<" ">>
Tab         == <<"\t">>
PaddedA     == <<" ","a"," ">>

\* What the user can have typed into the field.
Inputs == {Empty, Space, Tab, PaddedA, BuyMilk}

\* The characters String.prototype.trim strips that occur in the inputs.
WhiteSpace == {" ", "\t", "\n", "\r", "\f"}

RECURSIVE trimStart(_)
trimStart(s) ==
    IF s # << >> /\ Head(s) \in WhiteSpace THEN trimStart(Tail(s)) ELSE s

RECURSIVE trimEnd(_)
trimEnd(s) ==
    IF s # << >> /\ s[Len(s)] \in WhiteSpace
    THEN trimEnd(SubSeq(s, 1, Len(s) - 1))
    ELSE s

\* String.prototype.trim
trim(s) == trimEnd(trimStart(s))

----------------------------------------------------------------------------
(* The component *)

\* interface Task
Task == [id : Int, text : Seq(STRING), completed : BOOLEAN]

\* useState<Task[]>([...]) initial value
SeedTasksSameId ==
    << [id |-> 1, text |-> DeployToAWS, completed |-> FALSE],
       [id |-> 1, text |-> TestTheApp,  completed |-> FALSE] >>
SeedTasks ==
    << [id |-> 1, text |-> DeployToAWS, completed |-> FALSE],
       [id |-> 2, text |-> TestTheApp,  completed |-> FALSE] >>

\* The first reading of the clock in a session: Date.now() is far above the seed ids.
Epoch == SeedTasks[Len(SeedTasks)].id + 1

Ids(ts) == {ts[i].id : i \in DOMAIN ts}

\* Every id a handler can be given in this exploration.
IdRange == 1 .. (Epoch + MaxTicks)

\* if (inputValue.trim())  -- the empty string is the only falsy string
truthyUntrimmed(input) == input # << >>
truthyAlways(input) == TRUE
truthy(input) == trim(input) # << >>

\* const newTask: Task = { id: Date.now(), text: inputValue, completed: false }
newTaskTrimmed(input, t) == [id |-> t, text |-> trim(input), completed |-> FALSE]
newTask(input, t) == [id |-> t, text |-> input, completed |-> FALSE]

\* [...tasks, newTask]
spreadPrepend(ts, task) == <<task>> \o ts
spread(ts, task) == Append(ts, task)

\* tasks.map(task => task.id === id ? { ...task, completed: !task.completed } : task)
toggledSetTrue(ts, id) ==
    [i \in DOMAIN ts |->
        IF ts[i].id = id THEN [ts[i] EXCEPT !.completed = TRUE] ELSE ts[i]]
toggledByIndex(ts, id) ==
    [i \in DOMAIN ts |->
        IF i = id THEN [ts[i] EXCEPT !.completed = ~ts[i].completed] ELSE ts[i]]
toggledAll(ts, id) ==
    [i \in DOMAIN ts |-> [ts[i] EXCEPT !.completed = ~ts[i].completed]]
toggled(ts, id) ==
    [i \in DOMAIN ts |->
        IF ts[i].id = id THEN [ts[i] EXCEPT !.completed = ~ts[i].completed] ELSE ts[i]]

\* tasks.filter(task => task.id !== id)
RECURSIVE filteredKeepMatch(_, _)
filteredKeepMatch(ts, id) ==
    IF ts = << >> THEN << >>
    ELSE IF Head(ts).id = id
         THEN <<Head(ts)>> \o filteredKeepMatch(Tail(ts), id)
         ELSE filteredKeepMatch(Tail(ts), id)
RECURSIVE filtered(_, _)
filtered(ts, id) ==
    IF ts = << >> THEN << >>
    ELSE IF Head(ts).id # id
         THEN <<Head(ts)>> \o filtered(Tail(ts), id)
         ELSE filtered(Tail(ts), id)

Matches(ts, id) == Cardinality({i \in DOMAIN ts : ts[i].id = id})

\* The state as it is now: what useState returns to the next render.
Snapshot == [tasks |-> tasks, inputValue |-> inputValue]

\* The handlers are closures made by a render (App.tsx:17-37, 51): the tasks and
\* inputValue they read are the ones that render got from useState, given here as c.

\* onChange={(e) => setInputValue(e.target.value)}
setInputValueTrimmed(text) ==
    /\ inputValue' = trim(text)
    /\ UNCHANGED <<tasks, now>>
setInputValue(text) ==
    /\ inputValue' = text
    /\ UNCHANGED <<tasks, now>>

\* const addTask = (): void => { ... }, as made by a render of state c
addTaskFrom(c) ==
    /\ IF truthy(c.inputValue)
       THEN /\ tasks' = spread(c.tasks, newTask(c.inputValue, now))
            /\ inputValue' = Empty
       ELSE UNCHANGED <<tasks, inputValue>>
    /\ UNCHANGED now

\* const toggleTask = (id: number): void => { ... }, as made by a render of state c
toggleTaskFrom(c, id) ==
    /\ tasks' = toggled(c.tasks, id)
    /\ UNCHANGED <<inputValue, now>>

\* const deleteTask = (id: number): void => { ... }, as made by a render of state c
deleteTaskFrom(c, id) ==
    /\ tasks' = filtered(c.tasks, id)
    /\ UNCHANGED <<inputValue, now>>

\* The handlers of a render that has the state as it is now.
addTask == addTaskFrom(Snapshot)

toggleTask(id) == toggleTaskFrom(Snapshot, id)

deleteTask(id) == deleteTaskFrom(Snapshot, id)

\* The commit at the end of an event: the component renders again with the new state.
Commit == view' = [tasks |-> tasks', inputValue |-> inputValue']

\* The wall clock moves on between two events.
Tick ==
    /\ now < Epoch + MaxTicks
    /\ now' = now + 1
    /\ UNCHANGED <<tasks, inputValue>>

----------------------------------------------------------------------------
(* Spec: the handlers, with the last call on record *)

NoSnapshot == [tasks |-> << >>, inputValue |-> Empty]

\* The record of a call: the handler; its argument (the text read by addTask, the id given
\* to toggleTask when a task carries it, 0 otherwise); how many tasks carried the id given
\* to toggleTask or deleteTask; for a toggleTask of an id in tasks, whether the call before
\* was the same call; and for toggleTask the state it started from.
Call(op, arg, n) ==
    [op |-> op, arg |-> arg, n |-> n,
     rep |-> (op = "toggleTask" /\ n > 0 /\ last.op = op /\ last.arg = arg),
     was |-> IF op = "toggleTask" THEN Snapshot ELSE NoSnapshot]

NoCall == [op |-> "none", arg |-> 0, n |-> 0, rep |-> FALSE, was |-> NoSnapshot]

Init ==
    /\ tasks = SeedTasks
    /\ inputValue = Empty
    /\ now = Epoch
    /\ view = [tasks |-> SeedTasks, inputValue |-> Empty]
    /\ last = NoCall
    /\ submitted = << >>
    /\ removed = 0
    /\ step = 0

SetInputValueCall(text) ==
    /\ setInputValue(text)
    /\ last' = Call("setInputValue", text, 0)
    /\ Commit
    /\ UNCHANGED <<submitted, removed, step>>

AddTaskCall ==
    /\ Len(tasks) < MaxTasks
    /\ addTask
    /\ last' = Call("addTask", inputValue, 0)
    /\ Commit
    /\ UNCHANGED <<submitted, removed, step>>

ToggleTaskCall(id) ==
    /\ toggleTask(id)
    /\ last' = Call("toggleTask", IF id \in Ids(tasks) THEN id ELSE 0, Matches(tasks, id))
    /\ Commit
    /\ UNCHANGED <<submitted, removed, step>>

DeleteTaskCall(id) ==
    /\ deleteTask(id)
    /\ last' = Call("deleteTask", 0, Matches(tasks, id))
    /\ Commit
    /\ UNCHANGED <<submitted, removed, step>>

ClockTick ==
    /\ Tick
    /\ UNCHANGED <<view, last, submitted, removed, step>>

Next ==
    \/ \E text \in Inputs : SetInputValueCall(text)
    \/ AddTaskCall
    \/ \E id \in IdRange : ToggleTaskCall(id)
    \/ \E id \in IdRange : DeleteTaskCall(id)
    \/ ClockTick

Spec == Init /\ [][Next]_vars

----------------------------------------------------------------------------
(* SpecRun: the handlers, with the run's submissions and deletions on record *)

\* Position in the walk-through of spec section 8 after handler op with argument arg
\* (a text for setInputValue, an id for the others); 0 once the run has left it.
Walk(op, arg) ==
    IF step = 0 /\ tasks = SeedTasks /\ removed = 0 /\ submitted = << >>
       /\ op = "setInputValue" /\ arg = BuyMilk THEN 1
    ELSE IF step = 1 /\ op = "addTask" THEN 2
    ELSE IF step = 2 /\ op = "toggleTask" /\ arg = SeedTasks[1].id THEN 3
    ELSE IF step = 3 /\ op = "deleteTask" /\ arg = SeedTasks[2].id THEN 4
    ELSE 0

SetInputValueRun(text) ==
    /\ setInputValue(text)
    /\ step' = Walk("setInputValue", text)
    /\ Commit
    /\ UNCHANGED <<last, submitted, removed>>

AddTaskRun ==
    /\ inputValue # Empty => Len(submitted) < MaxAdds
    /\ addTask
    /\ submitted' = IF inputValue # Empty THEN Append(submitted, inputValue) ELSE submitted
    /\ step' = Walk("addTask", 0)
    /\ Commit
    /\ UNCHANGED <<last, removed>>

ToggleTaskRun(id) ==
    /\ toggleTask(id)
    /\ step' = Walk("toggleTask", id)
    /\ Commit
    /\ UNCHANGED <<last, submitted, removed>>

DeleteTaskRun(id) ==
    /\ deleteTask(id)
    /\ removed' = removed + Matches(tasks, id)
    /\ step' = Walk("deleteTask", id)
    /\ Commit
    /\ UNCHANGED <<last, submitted>>

ClockTickRun ==
    /\ Tick
    /\ UNCHANGED <<view, last, submitted, removed, step>>

NextRun ==
    \/ \E text \in Inputs : SetInputValueRun(text)
    \/ AddTaskRun
    \/ \E id \in IdRange : ToggleTaskRun(id)
    \/ \E id \in IdRange : DeleteTaskRun(id)
    \/ ClockTickRun

SpecRun == Init /\ [][NextRun]_vars

----------------------------------------------------------------------------
(* SpecEvents: events and renders as separate steps *)

\* What the handlers bound to the DOM read as tasks and inputValue: App.tsx:17-37 makes
\* them anew in every render, so they close over the state of the last render.
capturedFirstRender == [tasks |-> SeedTasks, inputValue |-> Empty]
captured == view

\* React has rendered the state as it is now: no update is waiting.  The updates of an
\* event are committed before the host dispatches the next event to a handler.
Flushed == view = Snapshot

SetInputValueEvent(text) ==
    /\ Flushed
    /\ setInputValue(text)
    /\ step' = Walk("setInputValue", text)
    /\ UNCHANGED <<view, last, submitted, removed>>

AddTaskEvent ==
    /\ Flushed
    /\ Len(tasks) < MaxTasks
    /\ addTaskFrom(captured)
    /\ step' = Walk("addTask", 0)
    /\ UNCHANGED <<view, last, submitted, removed>>

ToggleTaskEvent(id) ==
    /\ Flushed
    /\ toggleTaskFrom(captured, id)
    /\ step' = Walk("toggleTask", id)
    /\ UNCHANGED <<view, last, submitted, removed>>

DeleteTaskEvent(id) ==
    /\ Flushed
    /\ deleteTaskFrom(captured, id)
    /\ step' = Walk("deleteTask", id)
    /\ UNCHANGED <<view, last, submitted, removed>>

\* const App: React.FC = () => { ... }: the component runs again with the new state.
Render ==
    /\ ~Flushed
    /\ view' = Snapshot
    /\ UNCHANGED <<tasks, inputValue, now, last, submitted, removed, step>>

ClockTickEvent ==
    /\ Tick
    /\ UNCHANGED <<view, last, submitted, removed, step>>

NextEvents ==
    \/ \E text \in Inputs : SetInputValueEvent(text)
    \/ AddTaskEvent
    \/ \E id \in IdRange : ToggleTaskEvent(id)
    \/ \E id \in IdRange : DeleteTaskEvent(id)
    \/ Render
    \/ ClockTickEvent

SpecEvents == Init /\ [][NextEvents]_vars

----------------------------------------------------------------------------
(* Claims *)

NonBlank(s) == trim(s) # Empty

Texts(ts) == [i \in DOMAIN ts |-> ts[i].text]

\* C1: an addTask call made while inputValue has a non-whitespace character appends
\* exactly one task at the end of tasks, leaving the tasks before it as they were; the
\* new task's text is inputValue as typed (untrimmed), it is not completed, and
\* inputValue becomes the empty string.
C1_AddAppendsOne ==
    [][(trim(inputValue) # Empty /\ AddTaskCall) =>
        /\ Len(tasks') = Len(tasks) + 1
        /\ SubSeq(tasks', 1, Len(tasks)) = tasks
        /\ tasks'[Len(tasks')].text = inputValue
        /\ tasks'[Len(tasks')].completed = FALSE
        /\ inputValue' = Empty]_vars

C1_Witness ==
    /\ last.op = "addTask"
    /\ last.arg = PaddedA
    /\ Len(tasks) = 3
    /\ SubSeq(tasks, 1, 2) = SeedTasks
    /\ tasks[3].text = PaddedA
    /\ tasks[3].completed = FALSE
    /\ inputValue = Empty

\* C2: an addTask call made while inputValue is empty or all whitespace changes neither
\* tasks nor inputValue.
C2_BlankAddIsNoOp ==
    [][(trim(inputValue) = Empty /\ AddTaskCall) =>
        /\ tasks' = tasks
        /\ inputValue' = inputValue]_vars

C2_Witness ==
    /\ last.op = "addTask"
    /\ last.arg = Tab
    /\ inputValue = Tab
    /\ tasks = SeedTasks

\* C3: no two tasks in tasks have the same id.
C3_UniqueIds ==
    \A i, j \in DOMAIN tasks : tasks[i].id = tasks[j].id => i = j

\* C4: deleteTask(id), called while a task with that id is in tasks, removes exactly one
\* element, the one with that id; the others keep their fields and their order.
C4_DeleteRemovesOne ==
    [][\A id \in IdRange : (DeleteTaskRun(id) /\ id \in Ids(tasks)) =>
        \E k \in DOMAIN tasks :
            /\ tasks[k].id = id
            /\ tasks' = SubSeq(tasks, 1, k - 1) \o SubSeq(tasks, k + 1, Len(tasks))]_vars

\* C5: toggleTask(id), called while a task with that id is in tasks, negates the
\* completed flag of that one task and changes nothing else in tasks.
C5_ToggleFlipsOne ==
    [][\A id \in IdRange : (ToggleTaskRun(id) /\ id \in Ids(tasks)) =>
        \E k \in DOMAIN tasks :
            /\ tasks[k].id = id
            /\ tasks' = [tasks EXCEPT ![k].completed = ~tasks[k].completed]]_vars

\* C6: toggleTask(id) and deleteTask(id) with an id that no task carries leave tasks and
\* inputValue as they were.  (A step that leaves the clock alone is a handler call,
\* last' is the record of that call, and last'.n counts the tasks that carried the id.)
C6_UnknownIdIsNoOp ==
    [][(/\ now' = now
        /\ last'.op \in {"toggleTask", "deleteTask"}
        /\ last'.n = 0) =>
            /\ tasks' = tasks
            /\ inputValue' = inputValue]_vars

C6_Witness ==
    /\ last.op = "deleteTask"
    /\ last.n = 0
    /\ Len(tasks) = 3
    /\ tasks[3].completed

\* C7 as stated: while nothing has been deleted, the tasks after the seed tasks are as
\* many as the addTask calls made with a non-empty inputValue, and carry their texts in
\* order.
C7_EveryNonEmptySubmissionAdds ==
    removed = 0 =>
        /\ Len(tasks) = Len(SeedTasks) + Len(submitted)
        /\ SubSeq(Texts(tasks), Len(SeedTasks) + 1, Len(tasks)) = submitted

\* C7 amended: the tasks ever added are as many as the addTask calls made with an
\* inputValue that is non-empty after trimming, and while nothing has been deleted the
\* tasks after the seed tasks carry the texts of those calls in order.
C7_EveryNonBlankSubmissionAdds ==
    /\ Len(tasks) + removed = Len(SeedTasks) + Len(SelectSeq(submitted, NonBlank))
    /\ removed = 0 =>
        SubSeq(Texts(tasks), Len(SeedTasks) + 1, Len(tasks)) = SelectSeq(submitted, NonBlank)

C7_Witness ==
    /\ removed = 0
    /\ submitted = <<BuyMilk, PaddedA>>
    /\ Len(tasks) = 4
    /\ tasks[3].text = BuyMilk
    /\ tasks[4].text = PaddedA

\* C8: a second toggleTask(id) right after a toggleTask(id) of an id in tasks gives back
\* the tasks and the inputValue the first one started from.
C8_ToggleTwiceRestores ==
    [][(last.op = "toggleTask" /\ last.n > 0 /\ ToggleTaskCall(last.arg)) =>
        /\ tasks' = last.was.tasks
        /\ inputValue' = last.was.inputValue]_vars

C8_Witness ==
    /\ last.op = "toggleTask"
    /\ last.rep
    /\ last.n = 1
    /\ last.arg = SeedTasks[2].id
    /\ last.was.tasks[2].completed = TRUE
    /\ tasks[2].completed = FALSE
    /\ tasks = SeedTasks

\* C9 as stated: the text of every task is non-empty and has no leading or trailing
\* whitespace.
C9_TextsTrimmed ==
    \A i \in DOMAIN tasks : tasks[i].text # Empty /\ trim(tasks[i].text) = tasks[i].text

\* C9 amended: the text of every task has at least one non-whitespace character.
C9_TextsNotBlank ==
    \A i \in DOMAIN tasks : trim(tasks[i].text) # Empty

C9_Witness ==
    \E i \in DOMAIN tasks :
        /\ tasks[i].text = PaddedA
        /\ trim(tasks[i].text) # tasks[i].text
        /\ tasks[i].id >= Epoch

\* C10: from the seed state, setInputValue("Buy milk") then addTask() gives three tasks,
\* the third "Buy milk" and not completed, with inputValue empty; toggleTask of "Deploy
\* to AWS" then leaves that task alone completed; deleteTask of "Test the app" then
\* leaves "Deploy to AWS" (completed) and "Buy milk" (not completed), in that order.
C10_WalkThrough ==
    /\ step = 2 =>
        /\ Len(tasks) = 3
        /\ tasks[3].text = BuyMilk
        /\ tasks[3].completed = FALSE
        /\ inputValue = Empty
    /\ step = 3 =>
        /\ Texts(tasks) = <<DeployToAWS, TestTheApp, BuyMilk>>
        /\ [i \in DOMAIN tasks |-> tasks[i].completed] = <<TRUE, FALSE, FALSE>>
    /\ step = 4 =>
        /\ Texts(tasks) = <<DeployToAWS, BuyMilk>>
        /\ [i \in DOMAIN tasks |-> tasks[i].completed] = <<TRUE, FALSE>>

C10_Witness ==
    /\ step = 4
    /\ Len(tasks) = 2


\* C11: before any handler has run, tasks is "Deploy to AWS" then "Test the app", both
\* not completed and with different ids, and inputValue is the empty string.
C11_InitialState ==
    last.op = "none" =>
        /\ Len(tasks) = 2
        /\ tasks[1].text = DeployToAWS
        /\ tasks[2].text = TestTheApp
        /\ tasks[1].completed = FALSE
        /\ tasks[2].completed = FALSE
        /\ tasks[1].id # tasks[2].id
        /\ inputValue = Empty

C11_Witness ==
    /\ last.op = "none"
    /\ now = Epoch
    /\ Len(tasks) = 2
    /\ inputValue = Empty

\* C12: every addTask, toggleTask and deleteTask event computes the new tasks from the
\* tasks and inputValue left by the event before it: addTask appends to them (or leaves
\* them), toggleTask(id) negates the flag of the tasks with that id in them, and
\* deleteTask(id) drops the tasks with that id from them.
C12_NoLostUpdate ==
    [][/\ AddTaskEvent =>
            tasks' = IF trim(inputValue) # Empty
                     THEN Append(tasks, [id |-> now, text |-> inputValue, completed |-> FALSE])
                     ELSE tasks
       /\ \A id \in IdRange : ToggleTaskEvent(id) =>
            /\ Len(tasks') = Len(tasks)
            /\ \A i \in DOMAIN tasks :
                tasks'[i] = IF tasks[i].id = id
                            THEN [tasks[i] EXCEPT !.completed = ~tasks[i].completed]
                            ELSE tasks[i]
       /\ \A id \in IdRange : DeleteTaskEvent(id) =>
            tasks' = SelectSeq(tasks, LAMBDA t : t.id # id)]_vars

\* After the events add "Buy milk" and toggle "Deploy to AWS", one right after the
\* other, the effects of both are in tasks.
C12_Witness ==
    /\ step = 3
    /\ Flushed
    /\ Len(tasks) = 3
    /\ tasks[3].text = BuyMilk
    /\ tasks[1].completed = TRUE

\* How many tasks of ts carry this id and this text.
Copies(ts, id, text) ==
    Cardinality({i \in DOMAIN ts : ts[i].id = id /\ ts[i].text = text})

\* C13: a task comes into tasks only in an addTask step and goes out only in a
\* deleteTask step for its id (so no other step brings a deleted task back); a task
\* that stays keeps its place, its id and its text, and its completed flag changes only
\* in a toggleTask step for its id.
C13_Lifecycle ==
    [][/\ (\E j \in DOMAIN tasks' :
                Copies(tasks', tasks'[j].id, tasks'[j].text)
                    > Copies(tasks, tasks'[j].id, tasks'[j].text))
            => AddTaskRun
       /\ \A i \in DOMAIN tasks :
            Copies(tasks', tasks[i].id, tasks[i].text)
                < Copies(tasks, tasks[i].id, tasks[i].text)
            => DeleteTaskRun(tasks[i].id)
       /\ (\A id \in IdRange : ~DeleteTaskRun(id)) =>
            /\ Len(tasks') >= Len(tasks)
            /\ \A i \in DOMAIN tasks :
                /\ tasks'[i].id = tasks[i].id
                /\ tasks'[i].text = tasks[i].text
                /\ tasks'[i].completed # tasks[i].completed => ToggleTaskRun(tasks[i].id)
       /\ \A id \in IdRange : DeleteTaskRun(id) =>
            tasks' = SelectSeq(tasks, LAMBDA t : t.id # id)]_vars

\* A task was added, a task was toggled and a task was deleted.
C13_Witness ==
    /\ submitted = <<BuyMilk>>
    /\ removed = 1
    /\ Texts(tasks) = <<DeployToAWS, BuyMilk>>
    /\ tasks[1].completed = TRUE
    /\ tasks[2].completed = FALSE

\* C14: setInputValue(text) makes inputValue the text it is given, whatever it is, and
\* leaves tasks alone; an addTask call with a non-blank inputValue makes it the empty
\* string; an addTask call with a blank inputValue, toggleTask, deleteTask and the clock
\* leave inputValue as it was.  (A step that leaves the clock alone is a handler call,
\* and last' is the record of that call.)
C14_InputValueFrame ==
    [][IF now' = now
       THEN /\ last'.op = "setInputValue" =>
                /\ inputValue' = last'.arg
                /\ tasks' = tasks
            /\ last'.op = "addTask" =>
                inputValue' = IF trim(inputValue) # Empty THEN Empty ELSE inputValue
            /\ last'.op \in {"toggleTask", "deleteTask"} => inputValue' = inputValue
       ELSE inputValue' = inputValue]_vars

C14_Witness ==
    /\ last.op = "setInputValue"
    /\ last.arg = PaddedA
    /\ inputValue = PaddedA
    /\ Len(tasks) = 3
    /\ tasks[3].text = BuyMilk

====
